---- MODULE Spec2Model ----
(***************************************************************************)
(* Model of the retrieval-augmented answering pipeline:                    *)
(*   - DocumentProcessor.chunk_text (document_processor.py), stepped one   *)
(*     loop iteration at a time (specification ChunkSpec);                 *)
(*   - RAGService (rag_service.py) with the VectorStore and GeminiService  *)
(*     calls it makes, interleaved at its await points (specification      *)
(*     Spec; CompareSpec for compare_documents);                           *)
(*   - find_similar_documents over the indexes ingests leave behind        *)
(*     (specification SimSpec).                                            *)
(* Positions in a text are 0-based as in Python; text[i] is Seq index i+1. *)
(***************************************************************************)
EXTENDS Integers, Sequences, FiniteSets, TLC

\* ---------------------------------------------------------------- bounds
MaxTextLen == 5       \* longest enumerated text given to chunk_text
MaxChunkSize == 3     \* largest chunk_size argument tried on those texts
MaxOverlap == 4       \* largest chunk_overlap argument tried on those texts
MaxOps == 3           \* operations the service is asked to perform
MaxDocs == 2          \* document ids the service can allocate
NumRequests == 2      \* requests the host runtime multiplexes
MaxSources == 2       \* largest max_sources argument of ask
MaxScope == 2         \* longest document_ids list of ask
MaxTopK == 2          \* largest top_k argument of find-similar
MaxLines == 3         \* most lines of a completion response given to a parser

\* ------------------------------------------------------ program constants
settings_chunk_size == 1000
settings_chunk_overlap == 200
Lookback == 100
TopKFactor == 3
SampleChunks == 2

\* -------------------------------------------------------------- variables
VARIABLES
    \* chunk_text: its arguments, its locals and its position
    text, chunk_size, chunk_overlap, start_pos, chunk_index, chunks, pc_chunk,
    \* RAGService state and the collaborators it drives
    documents_store, chat_history, collection, files, next_id, req,
    \* the embedding model: the distance of every chunk from the query
    distance,
    \* a response parser of GeminiService: the response lines, how many were
    \* scanned, its locals and its position
    lines, line_no, current_section, parsed, pc_parse,
    \* the observer: the operation that returned last and how many have
    last, ops_done

chunk_vars == <<text, chunk_size, chunk_overlap, start_pos, chunk_index, chunks, pc_chunk>>
rag_vars == <<documents_store, chat_history, collection, files, next_id, req, distance,
              last, ops_done>>
parse_vars == <<lines, line_no, current_section, parsed, pc_parse>>
vars == <<text, chunk_size, chunk_overlap, start_pos, chunk_index, chunks, pc_chunk,
          documents_store, chat_history, collection, files, next_id, req, distance,
          lines, line_no, current_section, parsed, pc_parse,
          last, ops_done>>

\* ------------------------------------------------------------- utilities
Max(a, b) == IF a >= b THEN a ELSE b
Min(a, b) == IF a <= b THEN a ELSE b
SetMax(S) == CHOOSE x \in S : \A y \in S : y <= x
SetMin(S) == CHOOSE x \in S : \A y \in S : x <= y
Rep(c, n) == [i \in 1..n |-> c]

\* characters of the model texts: a letter, a blank, a sentence terminator
\* and the newline
Alphabet == {"a", " ", ".", "\n"}
Whitespace == {" ", "\n"}

\* text[a:b] for 0 <= a <= b <= len(text)
Slice(s, a, b) == SubSeq(s, a + 1, b)

\* str.strip(): drop leading and trailing whitespace
strip(s) ==
    LET keep == {i \in 1..Len(s) : s[i] \notin Whitespace}
    IN  IF keep = {} THEN <<>> ELSE SubSeq(s, SetMin(keep), SetMax(keep))

\* str.rfind(sub, lo, hi): highest 0-based i with lo <= i, i + len(sub) <= hi
\* and text[i:i+len(sub)] = sub; -1 when there is none
rfind(s, sub, lo, hi) ==
    LET h == Min(hi, Len(s))
        found == {i \in lo..(h - Len(sub)) : Slice(s, i, i + Len(sub)) = sub}
    IN  IF found = {} THEN -1 ELSE SetMax(found)

sentence_endings == {<<".">>, <<"!">>, <<"?">>, <<"\n", "\n">>}

\* ============================================================ chunk_text

\* the right-most sentence ending inside the lookback window, -1 if none
best_break(s, start, end) ==
    LET search_start == Max(end - Lookback, start)
    IN  SetMax({rfind(s, e, search_start, end) : e \in sentence_endings} \cup {-1})

\* end_pos of the window starting at start: the window's end, moved back to
\* just after the best break when the window does not reach the text's end
window_end(s, start, size) ==
    LET end == Min(start + size, Len(s))
        bb == best_break(s, start, end)
    IN  IF end < Len(s) /\ bb > start THEN bb + 1 ELSE end

\* line 184: the start of the next window
next_start_mut(start, size, overlap, end) == start + size - overlap
next_start(start, size, overlap, end) == Max(start + size - overlap, end)

\* the chunk record appended for a window (the metadata map is flattened)
make_chunk(content, index, start, end) ==
    [content |-> content, chunk_index |-> index,
     start_char |-> start, end_char |-> end, total_chunks |-> 0]

\* chunk_index after a window whose trimmed slice is content
next_index_mut(index, content) == index + 1
next_index(index, content) == IF content # <<>> THEN index + 1 ELSE index

\* the chunks after a window whose trimmed slice is content
emit(cs, content, index, start, end) ==
    IF content # <<>> THEN Append(cs, make_chunk(content, index, start, end)) ELSE cs

\* the single chunk of a text no longer than chunk_size
short_chunk(s) ==
    [content |-> s, chunk_index |-> 0, start_char |-> 0, end_char |-> Len(s),
     total_chunks |-> 1]

\* the final pass that writes the total into every chunk
with_total(cs) == [i \in 1..Len(cs) |-> [cs[i] EXCEPT !.total_chunks = Len(cs)]]

\* texts longer than settings_chunk_size, chunked with the default settings
LongTexts ==
    { Rep("a", settings_chunk_size + 1),
      Rep(" ", settings_chunk_size + 1),
      <<"a", ".">> \o Rep("a", settings_chunk_size + Lookback),
      Rep("a", settings_chunk_size - 50) \o <<".">> \o Rep("a", 200),
      Rep("a", settings_chunk_size - 150) \o <<".">> \o Rep(" ", 200) \o <<"a">> }

ShortTexts == UNION {[1..n -> Alphabet] : n \in 0..MaxTextLen}

ChunkInputs ==
    (ShortTexts \X (1..MaxChunkSize) \X (0..MaxOverlap))
    \cup (LongTexts \X {settings_chunk_size} \X {settings_chunk_overlap})

ChunkIdle ==
    /\ text = <<>> /\ chunk_size = 0 /\ chunk_overlap = 0
    /\ start_pos = 0 /\ chunk_index = 0 /\ chunks = <<>> /\ pc_chunk = "idle"

ChunkInit ==
    /\ \E in \in ChunkInputs :
          /\ text = in[1] /\ chunk_size = in[2] /\ chunk_overlap = in[3]
    /\ start_pos = 0 /\ chunk_index = 0 /\ chunks = <<>> /\ pc_chunk = "start"

\* lines 134-145: the text fits one chunk
ChunkShort ==
    /\ pc_chunk = "start"
    /\ Len(text) <= chunk_size
    /\ chunks' = <<short_chunk(text)>>
    /\ pc_chunk' = "done"
    /\ UNCHANGED <<text, chunk_size, chunk_overlap, start_pos, chunk_index>>

\* lines 147-148: enter the loop
ChunkEnter ==
    /\ pc_chunk = "start"
    /\ Len(text) > chunk_size
    /\ pc_chunk' = "loop"
    /\ UNCHANGED <<text, chunk_size, chunk_overlap, start_pos, chunk_index, chunks>>

\* lines 150-184: one iteration of the while loop
ChunkIter ==
    /\ pc_chunk = "loop"
    /\ start_pos < Len(text)
    /\ LET end_pos == window_end(text, start_pos, chunk_size)
           chunk_content == strip(Slice(text, start_pos, end_pos))
       IN  /\ chunks' = emit(chunks, chunk_content, chunk_index, start_pos, end_pos)
           /\ chunk_index' = next_index(chunk_index, chunk_content)
           /\ start_pos' = next_start(start_pos, chunk_size, chunk_overlap, end_pos)
    /\ UNCHANGED <<text, chunk_size, chunk_overlap, pc_chunk>>

\* lines 186-190: the loop has ended
ChunkReturn ==
    /\ pc_chunk = "loop"
    /\ start_pos >= Len(text)
    /\ chunks' = with_total(chunks)
    /\ pc_chunk' = "done"
    /\ UNCHANGED <<text, chunk_size, chunk_overlap, start_pos, chunk_index>>

\* chunk_text as a function of its arguments, as RAGService calls it
RECURSIVE chunk_loop(_, _, _, _, _, _)
chunk_loop(s, size, overlap, start, index, cs) ==
    IF start >= Len(s) THEN with_total(cs)
    ELSE LET end_pos == window_end(s, start, size)
             chunk_content == strip(Slice(s, start, end_pos))
         IN  chunk_loop(s, size, overlap,
                        next_start(start, size, overlap, end_pos),
                        next_index(index, chunk_content),
                        emit(cs, chunk_content, index, start, end_pos))

chunk_text(s, size, overlap) ==
    IF Len(s) <= size THEN <<short_chunk(s)>>
    ELSE chunk_loop(s, size, overlap, 0, 0, <<>>)

\* ============================================================ RAGService

Requests == 1..NumRequests

\* ids a client can name: the ones allocated so far and 0, never allocated
ClientIds == 0..(next_id - 1)

Range(f) == {f[i] : i \in DOMAIN f}

\* the files of the model and the text extract_text_from_file gives for each
Library == {"empty.txt", "note.txt", "memo.txt", "blank.txt", "long.txt", "book.txt"}

extract_text_from_file(u) ==
    CASE u = "empty.txt" -> <<>>
      [] u = "note.txt"  -> <<"a", ".", " ", "a">>
      [] u = "memo.txt"  -> <<"a">>
      [] u = "blank.txt" -> Rep(" ", settings_chunk_size + 1)
      [] u = "long.txt"  -> Rep("a", settings_chunk_size + 1)
      [] u = "book.txt"  -> Rep("a", 2 * settings_chunk_size + 1)

\* the files clients upload in the service runs
Uploads == {"empty.txt", "note.txt", "blank.txt", "long.txt"}

\* chunk_text(text, filename) with the default settings, per upload
upload_chunks ==
    [u \in Library |->
        chunk_text(extract_text_from_file(u), settings_chunk_size, settings_chunk_overlap)]

\* len(text.split()): the number of maximal runs of non-whitespace
word_count(t) ==
    Cardinality({i \in 1..Len(t) :
                    t[i] \notin Whitespace /\ (i = 1 \/ t[i - 1] \in Whitespace)})

upload_word_count == [u \in Library |-> word_count(extract_text_from_file(u))]

\* the answers a ChatResponse can carry
NO_INFO == "I couldn't find relevant information in the uploaded documents to answer your question."
ASK_ERROR == "I encountered an error while processing your question"
GEMINI_TEXT == "response.text"
GEMINI_APOLOGY == "I apologize, but I encountered an error while processing your request."

Questions == {"q"}

\* a request slot: idle, or suspended inside process_document or ask_question
IdleRequest ==
    [op |-> "none", pc |-> "idle", id |-> 0, upload |-> "",
     question |-> "", document_ids |-> <<>>, top_k |-> 0,
     search_failed |-> FALSE, relevant_chunks |-> <<>>]

\* the record of a returned operation: its arguments, what it saw and its result
Returned(r, completion_called, result) ==
    [op |-> r.op, id |-> r.id, upload |-> r.upload, question |-> r.question,
     document_ids |-> r.document_ids, top_k |-> r.top_k,
     search_failed |-> r.search_failed,
     relevant_chunks |-> r.relevant_chunks,
     completion_called |-> completion_called, result |-> result]

InFlight == Cardinality({p \in Requests : req[p].pc # "idle"})

CanStart(p) == req[p].pc = "idle" /\ ops_done + InFlight < MaxOps

\* the chunks an upload puts into the index, as <<filename, chunk_index>>
ChunkKeys ==
    UNION {{<<u, upload_chunks[u][i].chunk_index>> : i \in 1..Len(upload_chunks[u])} :
              u \in {v \in Library : extract_text_from_file(v) # <<>>}}

\* the text of a stored chunk
stored_content(k) == upload_chunks[k[1]][k[2] + 1].content

\* pairs of stored chunks with the same text, hence the same embedding
SameContent ==
    {kk \in ChunkKeys \X ChunkKeys : stored_content(kk[1]) = stored_content(kk[2])}

\* the cosine distances the index reports: 0 for the direction of the
\* query, 1 for an orthogonal embedding, 2 for the opposite direction
Distances == {0, 1, 2}

\* the distances of the stored chunks from one query
Geometries ==
    {g \in [ChunkKeys -> Distances] : \A kk \in SameContent : g[kk[1]] = g[kk[2]]}

\* the embedding geometry of the service runs: the note orthogonal to the
\* query, full-size chunks opposite to it, the other chunks on it
DefaultGeometry ==
    [k \in ChunkKeys |->
        IF k[1] = "note.txt" THEN 1
        ELSE IF Len(stored_content(k)) >= settings_chunk_size THEN 2 ELSE 0]

RagInit ==
    /\ distance = DefaultGeometry
    /\ documents_store = <<>>
    /\ chat_history = <<>>
    /\ collection = {}
    /\ files = {}
    /\ next_id = 1
    /\ req = [p \in Requests |-> IdleRequest]
    /\ last = Returned(IdleRequest, FALSE, [kind |-> "none"])
    /\ ops_done = 0

\* ----------------------------------------------------------- VectorStore

\* the rows add_document_chunks writes, one per chunk, id "{document_id}_{i}"
chunk_rows(document_id, cs, filename) ==
    {[document_id |-> document_id, filename |-> filename,
      chunk_index |-> cs[i].chunk_index] : i \in 1..Len(cs)}

\* the rows a query can see: all of them, or those of the listed documents
filtered(rows, document_ids) ==
    IF document_ids # <<>>
    THEN {r \in rows : r.document_id \in Range(document_ids)}
    ELSE rows

\* the distance of a row from the query, by the embedding of its content
row_distance(r) == distance[<<r.filename, r.chunk_index>>]

\* the rankings of the n nearest rows of S, nearest first; rows at the same
\* distance come in either order
RECURSIVE nearest(_, _)
nearest(S, n) ==
    IF n <= 0 \/ S = {} THEN {<<>>}
    ELSE UNION {{<<r>> \o t : t \in nearest(S \ {r}, n - 1)} :
                   r \in {x \in S : \A y \in S : row_distance(x) <= row_distance(y)}}

\* what collection.query can return for n_results = top_k
query_results(rows, document_ids, top_k) ==
    nearest(filtered(rows, document_ids), top_k)

\* line 97
similarity_score(d) == 1 - d

\* search_similar_chunks: the formatted rows, or [] when the embedding call
\* or the query raised (a top_k below 1 makes the query raise)
search_similar_chunks(hits, raised) ==
    IF raised THEN <<>>
    ELSE [i \in 1..Len(hits) |->
            [document_id |-> hits[i].document_id,
             filename |-> hits[i].filename,
             chunk_index |-> hits[i].chunk_index,
             similarity_score |-> similarity_score(row_distance(hits[i]))]]

\* delete_document_chunks: the rows left, all of them when the call raised
delete_document_chunks(rows, document_id, raised) ==
    IF raised THEN rows ELSE {r \in rows : r.document_id # document_id}

\* --------------------------------------------------------- GeminiService

\* generate_response: the model's text, or the apology when the call raised
generate_response(raised) == IF raised THEN GEMINI_APOLOGY ELSE GEMINI_TEXT

\* ------------------------------------------------- RAGService.process_document

\* the first failing step of process_document after the file is saved
ingest_error(txt, cs, add_ok, ctype_ok) ==
    IF txt = <<>> THEN "Failed to extract text from document"
    ELSE IF cs = <<>> THEN "Failed to create text chunks"
    ELSE IF ~add_ok THEN "Failed to store document in vector database"
    ELSE IF ~ctype_ok THEN "DocumentResponse validation error"
    ELSE "none"

\* lines 40-60: the registry entry of a processed upload
document_entry(document_id, u, cs) ==
    [filename |-> u, file_path |-> document_id, text |-> u,
     chunks_count |-> Len(cs), word_count |-> upload_word_count[u]]

\* documents_store after process_document's steps ended with error
register_mut(store, document_id, entry, error) ==
    [d \in DOMAIN store \cup {document_id} |->
        IF d = document_id THEN entry ELSE store[d]]
register(store, document_id, entry, error) ==
    IF error # "none" THEN store
    ELSE [d \in DOMAIN store \cup {document_id} |->
            IF d = document_id THEN entry ELSE store[d]]

\* lines 20-24: allocate the id, save the upload, suspend on the write;
\* the save may raise, and then the operation ends here
IngestSave(p) ==
    /\ CanStart(p)
    /\ next_id <= MaxDocs
    /\ \E u \in Uploads, saved \in BOOLEAN :
        LET r == [IdleRequest EXCEPT !.op = "ingest", !.id = next_id, !.upload = u]
        IN  /\ next_id' = next_id + 1
            /\ IF saved
               THEN /\ files' = files \cup {next_id}
                    /\ req' = [req EXCEPT ![p] = [r EXCEPT !.pc = "ingest_saved"]]
                    /\ UNCHANGED <<last, ops_done>>
               ELSE /\ last' = Returned(r, FALSE, [kind |-> "raised", error |-> "save failed"])
                    /\ ops_done' = ops_done + 1
                    /\ UNCHANGED <<files, req>>
    /\ UNCHANGED <<documents_store, chat_history, collection>>

\* lines 26-66: extract, chunk, insert, register; the request's content_type
\* is first looked at here, by the DocumentResponse constructor
IngestProcess(p) ==
    /\ req[p].pc = "ingest_saved"
    /\ \E add_ok \in BOOLEAN, ctype_ok \in BOOLEAN :
        LET document_id == req[p].id
            txt == extract_text_from_file(req[p].upload)
            cs == IF txt = <<>> THEN <<>> ELSE upload_chunks[req[p].upload]
            error == ingest_error(txt, cs, add_ok, ctype_ok)
            entry == document_entry(document_id, req[p].upload, cs)
        IN  /\ collection' = IF txt # <<>> /\ cs # <<>> /\ add_ok
                             THEN collection \cup chunk_rows(document_id, cs, req[p].upload)
                             ELSE collection
            /\ documents_store' = register(documents_store, document_id, entry, error)
            /\ last' = Returned(req[p], FALSE,
                                IF error # "none" THEN [kind |-> "raised", error |-> error]
                                ELSE [kind |-> "Document", id |-> document_id])
    /\ req' = [req EXCEPT ![p] = IdleRequest]
    /\ ops_done' = ops_done + 1
    /\ UNCHANGED <<chat_history, files, next_id>>

\* ------------------------------------------------- RAGService.ask_question

ChatResponse(question, answer, sources, document_ids) ==
    [question |-> question, answer |-> answer, sources |-> sources,
     document_ids |-> document_ids]

\* line 108: the test that sends ask on to the completion service
has_relevant_chunks_mut(relevant_chunks) == TRUE
has_relevant_chunks(relevant_chunks) == relevant_chunks # <<>>

\* lines 109-116: what ask returns when nothing was retrieved
no_chunks_result_mut(question, document_ids) == [kind |-> "None"]
no_chunks_result(question, document_ids) ==
    [kind |-> "ChatResponse",
     value |-> ChatResponse(question, NO_INFO, <<>>, document_ids)]

\* lines 159-168: what ask returns when its body raised
error_result(question, document_ids) ==
    [kind |-> "ChatResponse",
     value |-> ChatResponse(question, ASK_ERROR, <<>>, document_ids)]

\* lines 122-133: one source per retrieved chunk, in retrieval order
make_sources(relevant_chunks) ==
    [i \in 1..Len(relevant_chunks) |->
        [document_id |-> relevant_chunks[i].document_id,
         document_name |-> relevant_chunks[i].filename,
         chunk_index |-> relevant_chunks[i].chunk_index,
         relevance_score |-> relevant_chunks[i].similarity_score]]

\* lines 151-155: the exchange appended to the history of every listed id
store_in_history_mut(history, document_ids, chat_response) == history
RECURSIVE store_in_history(_, _, _)
store_in_history(history, document_ids, chat_response) ==
    IF document_ids = <<>> THEN history
    ELSE LET doc_id == Head(document_ids)
             old == IF doc_id \in DOMAIN history THEN history[doc_id] ELSE <<>>
             new == [d \in DOMAIN history \cup {doc_id} |->
                        IF d = doc_id THEN Append(old, chat_response) ELSE history[d]]
         IN  store_in_history(new, Tail(document_ids), chat_response)

DocumentIdLists == UNION {[1..n -> ClientIds] : n \in 0..MaxScope}

\* lines 98-138: search, return at once when nothing was retrieved, else
\* build the sources and suspend on the completion call
AskSearch(p) ==
    /\ CanStart(p)
    /\ \E question \in Questions, document_ids \in DocumentIdLists,
          max_sources \in 0..MaxSources, raised \in BOOLEAN :
        \E hits \in query_results(collection, document_ids, max_sources) :
          LET failed == raised \/ max_sources < 1
              relevant_chunks == search_similar_chunks(hits, failed)
              r == [IdleRequest EXCEPT
                        !.op = "ask", !.question = question,
                        !.document_ids = document_ids,
                        !.search_failed = failed, !.relevant_chunks = relevant_chunks]
          IN  IF has_relevant_chunks(relevant_chunks)
              THEN /\ req' = [req EXCEPT ![p] = [r EXCEPT !.pc = "ask_wait"]]
                   /\ UNCHANGED <<last, ops_done>>
              ELSE /\ last' = Returned(r, FALSE, no_chunks_result(question, document_ids))
                   /\ ops_done' = ops_done + 1
                   /\ UNCHANGED req
    /\ UNCHANGED <<documents_store, chat_history, collection, files, next_id>>

\* lines 138-157: the completion call returns; compose, record, return
AskAnswer(p) ==
    /\ req[p].pc = "ask_wait"
    /\ \E raised \in BOOLEAN :
        LET answer == generate_response(raised)
            chat_response == ChatResponse(req[p].question, answer,
                                          make_sources(req[p].relevant_chunks),
                                          req[p].document_ids)
        IN  /\ chat_history' = store_in_history(chat_history, req[p].document_ids,
                                                chat_response)
            /\ last' = Returned(req[p], TRUE,
                                [kind |-> "ChatResponse", value |-> chat_response])
    /\ req' = [req EXCEPT ![p] = IdleRequest]
    /\ ops_done' = ops_done + 1
    /\ UNCHANGED <<documents_store, collection, files, next_id>>

\* ------------------------------------- RAGService: the synchronous operations

get_document(store, document_id) ==
    IF document_id \in DOMAIN store THEN <<store[document_id]>> ELSE <<>>

get_all_documents(store) == DOMAIN store

get_chat_history(history, document_id) ==
    IF document_id \in DOMAIN history THEN history[document_id] ELSE <<>>

\* vector_store.py 156-177: collection.count() and the distinct owners
get_collection_stats(rows) ==
    [total_chunks |-> Cardinality(rows),
     unique_documents |-> Cardinality({r.document_id : r \in rows})]

\* lines 258-272
get_system_stats(store, rows) ==
    [total_documents |-> Cardinality(DOMAIN store),
     total_chunks |-> get_collection_stats(rows).total_chunks]

\* lines 235-236: the history left after a document is deleted
clean_up_history_mut(history, document_id) == history
clean_up_history(history, document_id) ==
    [d \in DOMAIN history \ {document_id} |-> history[d]]

\* lines 220-226: the index rows after the call; an unknown id returns
\* before the index is touched
chunks_after_delete_mut(rows, document_id, found, raised) ==
    delete_document_chunks(rows, document_id, raised)
chunks_after_delete(rows, document_id, found, raised) ==
    IF found THEN delete_document_chunks(rows, document_id, raised) ELSE rows

\* lines 226-232: the registry after the index and the file store were
\* called; what the two calls returned is not looked at
remove_document_mut(store, document_id, chunks_deleted, file_deleted) ==
    IF chunks_deleted THEN [d \in DOMAIN store \ {document_id} |-> store[d]] ELSE store
remove_document(store, document_id, chunks_deleted, file_deleted) ==
    [d \in DOMAIN store \ {document_id} |-> store[d]]

\* lines 217-242
DeleteDocument(p) ==
    /\ CanStart(p)
    /\ \E document_id \in ClientIds, index_raised \in BOOLEAN, file_failed \in BOOLEAN :
        LET r == [IdleRequest EXCEPT !.op = "delete", !.id = document_id]
            found == document_id \in DOMAIN documents_store
        IN  /\ collection' = chunks_after_delete(collection, document_id, found, index_raised)
            /\ IF ~found
               THEN /\ last' = Returned(r, FALSE, [kind |-> "bool", value |-> FALSE])
                    /\ UNCHANGED <<documents_store, chat_history, files>>
               ELSE /\ files' = IF file_failed THEN files
                                ELSE files \ {documents_store[document_id].file_path}
                    /\ documents_store' = remove_document(documents_store, document_id,
                                                          ~index_raised, ~file_failed)
                    /\ chat_history' = clean_up_history(chat_history, document_id)
                    /\ last' = Returned(r, FALSE, [kind |-> "bool", value |-> TRUE])
    /\ ops_done' = ops_done + 1
    /\ UNCHANGED <<next_id, req>>

\* lines 248-256
ClearChatHistory(p) ==
    /\ CanStart(p)
    /\ \E document_id \in ClientIds :
        /\ chat_history' = [d \in DOMAIN chat_history \ {document_id} |-> chat_history[d]]
        /\ last' = Returned([IdleRequest EXCEPT !.op = "clear", !.id = document_id],
                            FALSE, [kind |-> "bool", value |-> TRUE])
    /\ ops_done' = ops_done + 1
    /\ UNCHANGED <<documents_store, collection, files, next_id, req>>

\* ------------------------------------------ RAGService.compare_documents

\* line 173
too_few_mut(document_ids) == Len(document_ids) < 1
too_few(document_ids) == Len(document_ids) < 2

\* lines 203-205: every exception of the body is re-raised with this prefix
comparison_failed(message) ==
    [kind |-> "raised", error |-> <<"Document comparison failed", message>>]

\* lines 173-186: the first check of compare_documents that fails
compare_error(store, document_ids) ==
    IF too_few(document_ids) THEN "At least 2 documents are required for comparison"
    ELSE IF \E i \in 1..Len(document_ids) : document_ids[i] \notin DOMAIN store
    THEN "Document not found"
    ELSE "none"

\* gemini_service.py 96-163: the parsed sections, all empty when the call
\* or the parsing raised
gemini_compare_documents(raised) ==
    IF raised THEN [similarities |-> <<>>, differences |-> <<>>, common_themes |-> <<>>]
    ELSE [similarities |-> <<"s">>, differences |-> <<"d">>, common_themes |-> <<"t">>]

\* lines 192-201: the registry is read again for every id; an id that has
\* gone makes the subscript raise KeyError
with_documents(store, comparison_result, document_ids) ==
    IF \E i \in 1..Len(document_ids) : document_ids[i] \notin DOMAIN store
    THEN comparison_failed("KeyError")
    ELSE [kind |-> "comparison",
          value |-> [similarities |-> comparison_result.similarities,
                     differences |-> comparison_result.differences,
                     common_themes |-> comparison_result.common_themes,
                     documents |-> [i \in 1..Len(document_ids) |->
                         [id |-> document_ids[i],
                          filename |-> store[document_ids[i]].filename,
                          word_count |-> store[document_ids[i]].word_count]]]]

\* lines 172-189: validate, gather the texts, suspend on the completion call
CompareStart(p) ==
    /\ CanStart(p)
    /\ \E document_ids \in DocumentIdLists :
        LET r == [IdleRequest EXCEPT !.op = "compare", !.document_ids = document_ids]
            error == compare_error(documents_store, document_ids)
        IN  IF error # "none"
            THEN /\ last' = Returned(r, FALSE, comparison_failed(error))
                 /\ ops_done' = ops_done + 1
                 /\ UNCHANGED req
            ELSE /\ req' = [req EXCEPT ![p] = [r EXCEPT !.pc = "compare_wait"]]
                 /\ UNCHANGED <<last, ops_done>>
    /\ UNCHANGED <<documents_store, chat_history, collection, files, next_id>>

\* lines 189-205: the completion call returns; attach the metadata, return
CompareFinish(p) ==
    /\ req[p].pc = "compare_wait"
    /\ \E raised \in BOOLEAN :
        last' = Returned(req[p], TRUE,
                         with_documents(documents_store, gemini_compare_documents(raised),
                                        req[p].document_ids))
    /\ req' = [req EXCEPT ![p] = IdleRequest]
    /\ ops_done' = ops_done + 1
    /\ UNCHANGED <<documents_store, chat_history, collection, files, next_id>>

\* ------------------------------------------ find_similar_documents

\* vector_store.py 110-136: the rows of a document by chunk index, [] when
\* the fetch raised
get_document_chunks(rows, document_id, raised) ==
    LET own == {r \in rows : r.document_id = document_id}
    IN  IF raised THEN <<>>
        ELSE [i \in 1..Cardinality(own) |->
                CHOOSE r \in own :
                    Cardinality({x \in own : x.chunk_index < r.chunk_index}) = i - 1]

\* vector_store.py 200: a hit counts when it belongs to another document
other_document_mut(chunk_doc_id, document_id) == TRUE
other_document(chunk_doc_id, document_id) == chunk_doc_id # document_id

\* vector_store.py 197-221: one entry per other document, in the order the
\* documents first appear among the hits; average_similarity is
\* similarity_sum / matching_chunks, kept as the two integers
doc_similarities(similar_chunks, document_id) ==
    LET others == SelectSeq(similar_chunks,
                            LAMBDA c : other_document(c.document_id, document_id))
        first == {i \in 1..Len(others) :
                    \A j \in 1..(i - 1) : others[j].document_id # others[i].document_id}
        at(k) == CHOOSE i \in first : Cardinality({j \in first : j < i}) = k - 1
        chunks_of(d) == SelectSeq(others, LAMBDA c : c.document_id = d)
        total(cs) == LET RECURSIVE sum(_)
                         sum(i) == IF i = 0 THEN 0
                                   ELSE cs[i].similarity_score + sum(i - 1)
                     IN  sum(Len(cs))
    IN  [k \in 1..Cardinality(first) |->
            LET c == others[at(k)]
                cs == chunks_of(c.document_id)
            IN  [document_id |-> c.document_id, filename |-> c.filename,
                 similarity_sum |-> total(cs), matching_chunks |-> Len(cs),
                 sample_chunks |-> SubSeq(cs, 1, Min(SampleChunks, Len(cs)))]]

\* average_similarity of a is greater than that of b
more_similar(a, b) ==
    a.similarity_sum * b.matching_chunks > b.similarity_sum * a.matching_chunks

\* vector_store.py 224: list.sort(reverse=True) on average_similarity, which
\* keeps entries of equal average in their order
sort_by_similarity_mut(docs) == docs
sort_by_similarity(docs) ==
    LET N == Len(docs)
        rank(i) == 1 + Cardinality({j \in 1..N :
                        \/ more_similar(docs[j], docs[i])
                        \/ ~more_similar(docs[i], docs[j]) /\ j < i})
    IN  [k \in 1..N |-> docs[CHOOSE i \in 1..N : rank(i) = k]]

\* vector_store.py 179-229; hits is what the index returned for the
\* representative text with n_results = top_k * 3
vector_find_similar_documents(rows, document_id, top_k, hits, chunks_raised, search_raised) ==
    LET source_chunks == get_document_chunks(rows, document_id, chunks_raised)
        similar_chunks == search_similar_chunks(hits, search_raised \/ top_k * TopKFactor < 1)
        similar_docs == sort_by_similarity(doc_similarities(similar_chunks, document_id))
    IN  IF source_chunks = <<>> THEN <<>>
        ELSE SubSeq(similar_docs, 1, Min(top_k, Len(similar_docs)))

\* rag_service.py 283-292: the candidates still registered, with their entry
enrich(store, similar_docs) ==
    LET kept == SelectSeq(similar_docs, LAMBDA d : d.document_id \in DOMAIN store)
    IN  [i \in 1..Len(kept) |->
            [document_id |-> kept[i].document_id, filename |-> kept[i].filename,
             similarity_sum |-> kept[i].similarity_sum,
             matching_chunks |-> kept[i].matching_chunks,
             sample_chunks |-> kept[i].sample_chunks,
             document_info |-> store[kept[i].document_id].filename,
             metadata |-> [word_count |-> store[kept[i].document_id].word_count]]]

\* rag_service.py 274-298: "Document not found" is raised inside the try
\* block and the handler at 296-298 turns every exception into []
FindSimilar(p) ==
    /\ CanStart(p)
    /\ \E document_id \in ClientIds, top_k \in 0..MaxTopK,
          chunks_raised \in BOOLEAN, search_raised \in BOOLEAN :
        LET known == document_id \in DOMAIN documents_store
            searched == /\ known
                        /\ get_document_chunks(collection, document_id, chunks_raised) # <<>>
                        /\ ~search_raised
        IN  \E hits \in IF searched
                         THEN query_results(collection, <<>>, top_k * TopKFactor)
                         ELSE {<<>>} :
              LET similar_docs == vector_find_similar_documents(collection, document_id, top_k,
                                      hits, chunks_raised, search_raised)
                  r == [IdleRequest EXCEPT
                            !.op = "find_similar", !.id = document_id, !.top_k = top_k,
                            !.relevant_chunks = search_similar_chunks(hits, ~searched)]
              IN  last' = Returned(r, FALSE,
                                   [kind |-> "list",
                                    value |-> IF known
                                              THEN enrich(documents_store, similar_docs)
                                              ELSE <<>>])
    /\ ops_done' = ops_done + 1
    /\ UNCHANGED <<documents_store, chat_history, collection, files, next_id, req>>

\* ========================================================== GeminiService

\* A string is a sequence of tokens: a character, or one of the section
\* labels taken as a whole.
SUMMARY == <<"SUMMARY:">>
KEY_POINTS == <<"KEY_POINTS:">>
THEMES == <<"THEMES:">>
SIMILARITIES == <<"SIMILARITIES:">>
DIFFERENCES == <<"DIFFERENCES:">>
COMMON_THEMES == <<"COMMON_THEMES:">>
DASH == <<"-", " ">>

\* str.startswith(prefix)
startswith(s, prefix) ==
    Len(s) >= Len(prefix) /\ SubSeq(s, 1, Len(prefix)) = prefix

\* str.replace(sub, ''): every occurrence of sub removed, left to right
RECURSIVE remove(_, _)
remove(s, sub) ==
    IF s = <<>> THEN <<>>
    ELSE IF startswith(s, sub) THEN remove(SubSeq(s, Len(sub) + 1, Len(s)), sub)
    ELSE <<Head(s)>> \o remove(Tail(s), sub)

\* str.split(','): the pieces between the commas, one empty piece for ''
RECURSIVE split(_)
split(s) ==
    LET commas == {i \in 1..Len(s) : s[i] = ","}
    IN  IF commas = {} THEN <<s>>
        ELSE LET c == SetMin(commas)
             IN  <<SubSeq(s, 1, c - 1)>> \o split(SubSeq(s, c + 1, Len(s)))

\* [t.strip() for t in line.replace(label, '').split(',')]
comma_list(line, label) ==
    LET pieces == split(remove(line, label))
    IN  [i \in 1..Len(pieces) |-> strip(pieces[i])]

\* line 77: the test that lets a dash-led line become a key point
in_key_points_mut(section) == TRUE
in_key_points(section) == section = "key_points"

\* generate_summary lines 68-80: one pass of the loop over the stripped line;
\* st holds current_section and the three results
summary_line(st, raw) ==
    LET line == strip(raw)
    IN  IF startswith(line, SUMMARY)
        THEN [st EXCEPT !.summary = strip(remove(line, SUMMARY)),
                        !.current_section = "summary"]
        ELSE IF startswith(line, KEY_POINTS)
        THEN [st EXCEPT !.current_section = "key_points"]
        ELSE IF startswith(line, THEMES)
        THEN [st EXCEPT !.themes = comma_list(line, THEMES),
                        !.current_section = "themes"]
        ELSE IF startswith(line, DASH) /\ in_key_points(st.current_section)
        THEN [st EXCEPT !.key_points = Append(@, remove(line, DASH))]
        ELSE IF st.current_section = "summary" /\ line # <<>>
        THEN [st EXCEPT !.summary = @ \o <<" ">> \o line]
        ELSE st

\* compare_documents lines 138-149; the COMMON_THEMES: branch assigns the
\* list and leaves current_section as it is
compare_line(st, raw) ==
    LET line == strip(raw)
    IN  IF startswith(line, SIMILARITIES)
        THEN [st EXCEPT !.current_section = "similarities"]
        ELSE IF startswith(line, DIFFERENCES)
        THEN [st EXCEPT !.current_section = "differences"]
        ELSE IF startswith(line, COMMON_THEMES)
        THEN [st EXCEPT !.common_themes = comma_list(line, COMMON_THEMES)]
        ELSE IF startswith(line, DASH)
        THEN IF st.current_section = "similarities"
             THEN [st EXCEPT !.similarities = Append(@, remove(line, DASH))]
             ELSE IF st.current_section = "differences"
             THEN [st EXCEPT !.differences = Append(@, remove(line, DASH))]
             ELSE st
        ELSE st

\* the lines response.text.split('\n') can hold
ResponseLines ==
    { <<>>,
      <<"a">>,
      <<"-", "a">>,
      <<" ", "-", " ", "a", " ">>,
      <<"-", " ", "a", "-", " ", "b">>,
      <<"SUMMARY:", " ", "a">>,
      <<"KEY_POINTS:">>,
      <<"THEMES:", " ", "a", ",", "b">>,
      <<"SIMILARITIES:">>,
      <<"DIFFERENCES:">>,
      <<"COMMON_THEMES:", " ", "a">> }

\* split always gives at least one line
Responses == UNION {[1..n -> ResponseLines] : n \in 1..MaxLines}

ParseIdle ==
    /\ lines = <<>> /\ line_no = 0 /\ current_section = "None"
    /\ parsed = <<>> /\ pc_parse = "idle"

\* lines 60-65 of generate_summary, lines 130-135 of compare_documents
ParseInit ==
    /\ lines \in Responses
    /\ line_no = 0
    /\ current_section = "None"
    /\ \/ /\ pc_parse = "generate_summary"
          /\ parsed = [summary |-> <<>>, key_points |-> <<>>, themes |-> <<>>]
       \/ /\ pc_parse = "compare_documents"
          /\ parsed = [similarities |-> <<>>, differences |-> <<>>, common_themes |-> <<>>]

\* generate_summary lines 67-80: the next line of the response
SummaryLine ==
    /\ pc_parse = "generate_summary"
    /\ line_no < Len(lines)
    /\ LET st == summary_line([current_section |-> current_section,
                               summary |-> parsed.summary,
                               key_points |-> parsed.key_points,
                               themes |-> parsed.themes], lines[line_no + 1])
       IN  /\ current_section' = st.current_section
           /\ parsed' = [summary |-> st.summary, key_points |-> st.key_points,
                         themes |-> st.themes]
    /\ line_no' = line_no + 1
    /\ UNCHANGED <<lines, pc_parse>>

\* generate_summary lines 82-86
SummaryReturn ==
    /\ pc_parse = "generate_summary"
    /\ line_no = Len(lines)
    /\ parsed' = [parsed EXCEPT !.summary = strip(@)]
    /\ pc_parse' = "summary_done"
    /\ UNCHANGED <<lines, line_no, current_section>>

\* compare_documents lines 137-149: the next line of the response
CompareLine ==
    /\ pc_parse = "compare_documents"
    /\ line_no < Len(lines)
    /\ LET st == compare_line([current_section |-> current_section,
                               similarities |-> parsed.similarities,
                               differences |-> parsed.differences,
                               common_themes |-> parsed.common_themes],
                              lines[line_no + 1])
       IN  /\ current_section' = st.current_section
           /\ parsed' = [similarities |-> st.similarities,
                         differences |-> st.differences,
                         common_themes |-> st.common_themes]
    /\ line_no' = line_no + 1
    /\ UNCHANGED <<lines, pc_parse>>

\* compare_documents lines 151-155
CompareReturn ==
    /\ pc_parse = "compare_documents"
    /\ line_no = Len(lines)
    /\ pc_parse' = "compare_done"
    /\ UNCHANGED <<lines, line_no, current_section, parsed>>

\* ========================================================== specifications

Init == ChunkIdle /\ ParseIdle /\ RagInit

Next ==
    \/ \E p \in Requests : IngestSave(p) /\ UNCHANGED <<chunk_vars, parse_vars, distance>>
    \/ \E p \in Requests : IngestProcess(p) /\ UNCHANGED <<chunk_vars, parse_vars, distance>>
    \/ \E p \in Requests : AskSearch(p) /\ UNCHANGED <<chunk_vars, parse_vars, distance>>
    \/ \E p \in Requests : AskAnswer(p) /\ UNCHANGED <<chunk_vars, parse_vars, distance>>
    \/ \E p \in Requests : DeleteDocument(p) /\ UNCHANGED <<chunk_vars, parse_vars, distance>>
    \/ \E p \in Requests : ClearChatHistory(p) /\ UNCHANGED <<chunk_vars, parse_vars, distance>>

Spec == Init /\ [][Next]_vars

ChunkSpecInit == ChunkInit /\ ParseIdle /\ RagInit

ChunkNext ==
    \/ ChunkShort /\ UNCHANGED <<rag_vars, parse_vars>>
    \/ ChunkEnter /\ UNCHANGED <<rag_vars, parse_vars>>
    \/ ChunkIter /\ UNCHANGED <<rag_vars, parse_vars>>
    \/ ChunkReturn /\ UNCHANGED <<rag_vars, parse_vars>>

ChunkSpec == ChunkSpecInit /\ [][ChunkNext]_vars

\* Termination of chunk_text is checked on the texts made of a letter and a
\* sentence ending, the characters that decide where a window ends.
\* chunk_text is straight-line code: a call that can take a step takes it.
LiveAlphabet == {"a", "."}

ChunkLiveInit ==
    /\ text \in UNION {[1..n -> LiveAlphabet] : n \in 0..MaxTextLen}
    /\ chunk_size \in 1..MaxChunkSize
    /\ chunk_overlap \in 0..MaxOverlap
    /\ start_pos = 0 /\ chunk_index = 0 /\ chunks = <<>> /\ pc_chunk = "start"
    /\ ParseIdle
    /\ RagInit

ChunkLiveSpec == ChunkLiveInit /\ [][ChunkNext]_vars /\ WF_vars(ChunkNext)

\* the two response parsers, each run over every response
ParseSpecInit == ChunkIdle /\ ParseInit /\ RagInit

ParseNext ==
    \/ SummaryLine /\ UNCHANGED <<chunk_vars, rag_vars>>
    \/ SummaryReturn /\ UNCHANGED <<chunk_vars, rag_vars>>
    \/ CompareLine /\ UNCHANGED <<chunk_vars, rag_vars>>
    \/ CompareReturn /\ UNCHANGED <<chunk_vars, rag_vars>>

ParseSpec == ParseSpecInit /\ [][ParseNext]_vars

\* compare_documents interleaved with the operations that change the registry
CompareNext ==
    \/ \E p \in Requests : IngestSave(p) /\ UNCHANGED <<chunk_vars, parse_vars, distance>>
    \/ \E p \in Requests : IngestProcess(p) /\ UNCHANGED <<chunk_vars, parse_vars, distance>>
    \/ \E p \in Requests : CompareStart(p) /\ UNCHANGED <<chunk_vars, parse_vars, distance>>
    \/ \E p \in Requests : CompareFinish(p) /\ UNCHANGED <<chunk_vars, parse_vars, distance>>
    \/ \E p \in Requests : DeleteDocument(p) /\ UNCHANGED <<chunk_vars, parse_vars, distance>>

CompareSpec == Init /\ [][CompareNext]_vars

\* The find-similar operation over the registries and indexes that ingests
\* leave behind: each of three files was ingested once or not at all, in
\* the order of ups; it is registered, or its registration failed
\* after its rows were inserted. The distances are those of the stored
\* chunks from the query of the call, 0 for text that is not in the index.
IndexedUploads == {"note.txt", "memo.txt", "book.txt"}

IngestOrders ==
    {ups \in UNION {[1..n -> IndexedUploads] : n \in 0..Cardinality(IndexedUploads)} :
        \A i, j \in 1..Len(ups) : i < j => ups[i] # ups[j]}

SimInit ==
    /\ ChunkIdle
    /\ ParseIdle
    /\ \E ups \in IngestOrders, reg \in SUBSET (1..Cardinality(IndexedUploads)) :
        /\ reg \subseteq 1..Len(ups)
        /\ distance \in {g \in Geometries :
                            \A k \in ChunkKeys :
                                (\A kk \in SameContent :
                                    kk[1] = k => kk[2][1] \notin Range(ups)) => g[k] = 0}
        /\ documents_store =
               [d \in reg |-> document_entry(d, ups[d], upload_chunks[ups[d]])]
        /\ collection =
               UNION {chunk_rows(d, upload_chunks[ups[d]], ups[d]) : d \in 1..Len(ups)}
        /\ files = 1..Len(ups)
        /\ next_id = Len(ups) + 1
    /\ chat_history = <<>>
    /\ req = [p \in Requests |-> IdleRequest]
    /\ last = Returned(IdleRequest, FALSE, [kind |-> "none"])
    /\ ops_done = MaxOps - 1

SimNext == \E p \in Requests : FindSimilar(p) /\ UNCHANGED <<chunk_vars, parse_vars, distance>>

SimSpec == SimInit /\ [][SimNext]_vars

\* ================================================================ claims

\* an operation returned in this step
Returns(op) == ops_done' # ops_done /\ last'.op = op

\* C1: an ingest that fails at any step raises to its caller and leaves the
\* Document Registry as it was, without a record for the upload; an ingest
\* that returns a Document had no failing step (text extracted, chunks
\* produced, rows inserted).
C1_IngestFailureRegistersNothing ==
    [][Returns("ingest") =>
         \/ /\ last'.result.kind = "raised"
            /\ documents_store' = documents_store
            /\ last'.id \notin DOMAIN documents_store'
         \/ /\ last'.result.kind = "Document"
            /\ last'.id \in DOMAIN documents_store'
            /\ extract_text_from_file(last'.upload) # <<>>
            /\ upload_chunks[last'.upload] # <<>>
            /\ chunk_rows(last'.id, upload_chunks[last'.upload], last'.upload)
                    \subseteq collection']_vars

\* an ingest whose text produced zero chunks has raised, another document
\* being registered
C1_Witness ==
    /\ last.op = "ingest" /\ last.result.kind = "raised"
    /\ last.result.error = "Failed to create text chunks"
    /\ last.id \notin DOMAIN documents_store
    /\ documents_store # <<>>

\* C2: whatever the arguments and whether the search and the completion
\* call succeed or raise, ask returns a ChatResponse.
C2_AskAlwaysReturnsChatResponse ==
    last.op = "ask" => last.result.kind = "ChatResponse"

\* an ask whose completion call raised has returned
C2_Witness ==
    /\ last.op = "ask" /\ last.completion_called
    /\ last.result.kind = "ChatResponse"
    /\ last.result.value.answer = GEMINI_APOLOGY

\* the exchange is the last entry of the history of every listed id, each
\* of which grew in this step
AppendedToEveryListed ==
    \A d \in Range(last'.document_ids) :
        /\ d \in DOMAIN chat_history'
        /\ Len(chat_history'[d]) > Len(get_chat_history(chat_history, d))
        /\ chat_history'[d][Len(chat_history'[d])] = last'.result.value

\* C3 as stated: every ask scoped to a non-empty documentIds appends its
\* exchange to the Chat History Store, whatever its outcome.
C3_Original ==
    [][(Returns("ask") /\ last'.document_ids # <<>>) => AppendedToEveryListed]_vars

\* C3 amended: an ask scoped to a non-empty documentIds appends its exchange
\* to the history of every listed id when its search retrieved at least one
\* chunk; an ask whose search retrieved nothing, or raised, changes no history.
C3_AskAppendsWhenChunksRetrieved ==
    [][(Returns("ask") /\ last'.document_ids # <<>>) =>
         IF last'.relevant_chunks # <<>>
         THEN AppendedToEveryListed
         ELSE chat_history' = chat_history]_vars

\* a scoped ask that retrieved a chunk has returned and is in the history
C3_Witness ==
    /\ last.op = "ask" /\ last.document_ids # <<>> /\ last.relevant_chunks # <<>>
    /\ \A d \in Range(last.document_ids) :
          d \in DOMAIN chat_history /\ chat_history[d] # <<>>

\* C4: right after deleteDocument(d) returned true, get-document(d) finds
\* nothing, list-documents omits d and get-chat-history(d) is empty.
C4_DeleteCascades ==
    [][(Returns("delete") /\ last'.result.value) =>
         /\ get_document(documents_store', last'.id) = <<>>
         /\ last'.id \notin get_all_documents(documents_store')
         /\ get_chat_history(chat_history', last'.id) = <<>>]_vars

\* a delete has returned true while another document keeps its history
C4_Witness ==
    /\ last.op = "delete" /\ last.result.value
    /\ last.id \notin DOMAIN documents_store
    /\ \E d \in DOMAIN chat_history : d # last.id /\ chat_history[d] # <<>>

\* C5: an ask whose search returned no chunks returns the fixed answer with
\* no sources and has not called the completion service.
C5_NoChunksNoCompletion ==
    (last.op = "ask" /\ last.relevant_chunks = <<>>) =>
        /\ last.result.kind = "ChatResponse"
        /\ last.result.value.answer = NO_INFO
        /\ last.result.value.sources = <<>>
        /\ ~last.completion_called

\* an ask over a non-empty index whose search matched nothing has returned
C5_Witness ==
    /\ last.op = "ask" /\ last.relevant_chunks = <<>> /\ ~last.search_failed
    /\ collection # {}
    /\ last.result.value.answer = NO_INFO

\* C6 as stated: an ask whose search step raised returns the degraded
\* response with the error answer, not the fixed no-information answer.
C6_SearchFailureGivesErrorAnswer ==
    (last.op = "ask" /\ last.search_failed) =>
        /\ last.result = error_result(last.question, last.document_ids)
        /\ last.result.value.answer # NO_INFO

\* position i of the text lies in the range of some chunk
Covered(i) == \E k \in 1..Len(chunks) : chunks[k].start_char <= i /\ i < chunks[k].end_char

\* C7 as stated: for a text longer than chunkSize the chunk ranges cover
\* every non-whitespace position of the text.
C7_ChunksCoverText ==
    (pc_chunk = "done" /\ Len(text) > chunk_size) =>
        \A i \in 0..(Len(text) - 1) : text[i + 1] \notin Whitespace => Covered(i)

\* C8 as stated: for a text longer than chunkSize and 0 < chunkOverlap <
\* chunkSize every chunk after the first starts before the end of the one
\* before it.
C8_ConsecutiveChunksOverlap ==
    (pc_chunk = "done" /\ Len(text) > chunk_size
        /\ 0 < chunk_overlap /\ chunk_overlap < chunk_size) =>
        \A k \in 2..Len(chunks) : chunks[k].start_char < chunks[k - 1].end_char

\* C9 as stated: a text no longer than chunkSize gives exactly one chunk,
\* of index 0, whose content is the trimmed text.
C9_ShortTextOneTrimmedChunk ==
    (pc_chunk = "done" /\ Len(text) <= chunk_size) =>
        /\ Len(chunks) = 1
        /\ chunks[1].chunk_index = 0
        /\ chunks[1].content = strip(text)

\* C10: the chunks produced so far, and so the chunks returned, have
\* indices 0..n-1 in order, start_char <= end_char, and start_char
\* non-decreasing.
C10_IndicesAndOffsetsOrdered ==
    \A k \in 1..Len(chunks) :
        /\ chunks[k].chunk_index = k - 1
        /\ chunks[k].start_char <= chunks[k].end_char
        /\ k > 1 => chunks[k - 1].start_char <= chunks[k].start_char

\* the loop has returned three or more chunks after skipping a blank window
C10_Witness ==
    /\ pc_chunk = "done" /\ Len(chunks) >= 3
    /\ \E k \in 2..Len(chunks) : chunks[k].start_char > chunks[k - 1].end_char + 1

\* C11 as stated: every similarity score of a retrieved chunk, and every
\* relevance score of a source of the ChatResponse, lies in [0,1], the
\* index's distances lying in [0,2].
C11_ScoresInUnitInterval ==
    (last.op = "ask" /\ last.result.kind = "ChatResponse") =>
        /\ \A k \in ChunkKeys : distance[k] \in Distances
        /\ \A i \in 1..Len(last.relevant_chunks) :
              /\ 0 <= last.relevant_chunks[i].similarity_score
              /\ last.relevant_chunks[i].similarity_score <= 1
        /\ \A i \in 1..Len(last.result.value.sources) :
              /\ 0 <= last.result.value.sources[i].relevance_score
              /\ last.result.value.sources[i].relevance_score <= 1

\* C15: deleteDocument on a registered id returns true and removes the id
\* from the Document Registry and from the Chat History Store, whether or
\* not the index deletion and the file deletion succeeded.
C15_DeleteIgnoresPartialFailure ==
    [][(Returns("delete") /\ last'.id \in DOMAIN documents_store) =>
         /\ last'.result.kind = "bool" /\ last'.result.value
         /\ last'.id \notin DOMAIN documents_store'
         /\ last'.id \notin DOMAIN chat_history']_vars

\* a delete has returned true although the index kept the document's rows
\* and the file store kept its file
C15_Witness ==
    /\ last.op = "delete" /\ last.result.value
    /\ last.id \notin DOMAIN documents_store
    /\ \E r \in collection : r.document_id = last.id
    /\ last.id \in files

\* C16: deleteDocument on an id that is not registered returns false, does
\* not raise, and leaves registry, histories, index and file store alone.
C16_DeleteUnknownChangesNothing ==
    [][(Returns("delete") /\ last'.id \notin DOMAIN documents_store) =>
         /\ last'.result.kind = "bool" /\ ~last'.result.value
         /\ UNCHANGED <<documents_store, chat_history, collection, files>>]_vars

\* a delete of an unregistered id that still has rows in the index and a
\* stored file has returned false
C16_Witness ==
    /\ last.op = "delete" /\ ~last.result.value
    /\ \E r \in collection : r.document_id = last.id
    /\ last.id \in files

\* C17 as stated: every id with a non-empty chat history is registered.
C17_HistoryOnlyForRegistered ==
    \A d \in DOMAIN chat_history :
        chat_history[d] # <<>> => d \in DOMAIN documents_store

\* C12: the list findSimilarDocuments(id, k) returns never has an entry
\* whose document id is id, whatever the registry and the index hold.
C12_SelfExcluded ==
    (last.op = "find_similar" /\ last.result.kind = "list") =>
        \A i \in 1..Len(last.result.value) : last.result.value[i].document_id # last.id

\* a find-similar returned candidates although the search had also
\* retrieved chunks of the subject document itself
C12_Witness ==
    /\ last.op = "find_similar"
    /\ last.result.value # <<>>
    /\ \E i \in 1..Len(last.relevant_chunks) : last.relevant_chunks[i].document_id = last.id

\* C13 as stated: findSimilarDocuments on an id that is not registered
\* signals an error to its caller instead of returning a list.
C13_FindSimilarUnknownFails ==
    [][(Returns("find_similar") /\ last'.id \notin DOMAIN documents_store) =>
         last'.result.kind = "raised"]_vars

\* C14: compareDocuments with fewer than 2 ids fails, and it has called
\* neither the completion service nor any other collaborator before failing.
C14_CompareNeedsTwoIds ==
    [][(Returns("compare") /\ Len(last'.document_ids) < 2) =>
         /\ last'.result.kind = "raised"
         /\ last'.result.error[2] = "At least 2 documents are required for comparison"
         /\ ~last'.completion_called
         /\ UNCHANGED <<documents_store, chat_history, collection, files, req>>]_vars

\* a compare of a single registered document has failed
C14_Witness ==
    /\ last.op = "compare"
    /\ Len(last.document_ids) = 1
    /\ last.document_ids[1] \in DOMAIN documents_store
    /\ last.result.kind = "raised"

\* C18 as stated: a compare that got as far as the completion call (two or
\* more ids, all registered when it started) returns a comparison whose
\* documents are its ids in input order, whatever happened meanwhile.
C18_CompareSurvivesDelete ==
    [][(Returns("compare") /\ last'.completion_called) =>
         /\ last'.result.kind = "comparison"
         /\ Len(last'.result.value.documents) = Len(last'.document_ids)
         /\ \A i \in 1..Len(last'.document_ids) :
               last'.result.value.documents[i].id = last'.document_ids[i]]_vars

\* C19: chunk_text terminates for every text, chunk_size >= 1 and
\* chunk_overlap >= 0, because every iteration of the loop moves the window
\* start strictly forward.
C19_ChunkingTerminates ==
    /\ [][ChunkIter => start_pos' > start_pos]_vars
    /\ <>(pc_chunk = "done")

\* a call with chunk_overlap >= chunk_size has gone through the loop more
\* than once and returned
C19_Witness ==
    /\ pc_chunk = "done"
    /\ chunk_overlap >= chunk_size
    /\ Len(text) > chunk_size
    /\ Len(chunks) >= 2

\* C20 as stated: every chunk chunk_text returns, for a short or a long
\* text, has content that is non-empty after trimming and is the trimmed
\* slice text[start_char:end_char].
C20_ChunksAreTrimmedSlices ==
    pc_chunk = "done" =>
        \A k \in 1..Len(chunks) :
            /\ strip(chunks[k].content) # <<>>
            /\ chunks[k].content = strip(Slice(text, chunks[k].start_char, chunks[k].end_char))

\* C21 as stated: an ask that retrieved a chunk and lists documentIds
\* appends its exchange exactly once, as the last element, to the history of
\* each distinct listed id and leaves the other histories and the registry
\* alone; an ask without documentIds changes no history.
C21_AskAppendsOncePerId ==
    [][Returns("ask") =>
         /\ documents_store' = documents_store
         /\ (last'.document_ids = <<>>) => chat_history' = chat_history
         /\ (last'.document_ids # <<>> /\ last'.relevant_chunks # <<>>) =>
               /\ DOMAIN chat_history' = DOMAIN chat_history \cup Range(last'.document_ids)
               /\ \A d \in Range(last'.document_ids) :
                     chat_history'[d] =
                         Append(get_chat_history(chat_history, d), last'.result.value)
               /\ \A d \in DOMAIN chat_history \ Range(last'.document_ids) :
                     chat_history'[d] = chat_history[d]]_vars

\* the chunk counts of the registered documents, added up
RECURSIVE registered_chunks(_)
registered_chunks(store) ==
    IF DOMAIN store = {} THEN 0
    ELSE LET d == CHOOSE x \in DOMAIN store : TRUE
         IN  store[d].chunks_count
             + registered_chunks([x \in DOMAIN store \ {d} |-> store[x]])

\* C22 as stated: the total chunk count the stats report equals the sum of
\* the chunk counts of the registered documents.
C22_IndexMatchesRegistry ==
    get_system_stats(documents_store, collection).total_chunks
        = registered_chunks(documents_store)

\* the lines among the first n of ls that start, once stripped, with one of
\* the labels
label_lines(ls, n, labels) ==
    {i \in 1..n : \E l \in labels : startswith(strip(ls[i]), l)}

\* the label of the last such line, <<>> when there is none
recent_label(ls, n, labels) ==
    LET at == label_lines(ls, n, labels)
    IN  IF at = {} THEN <<>>
        ELSE CHOOSE l \in labels : startswith(strip(ls[SetMax(at)]), l)

\* C23 as stated: the compare parser adds a dash-led line to similarities
\* only when the most recent label line is SIMILARITIES:, to differences only
\* when it is DIFFERENCES:, and to neither after a COMMON_THEMES: line.
C23_CompareSectionMachine ==
    [][CompareLine =>
         LET line == strip(lines[line_no + 1])
             recent == recent_label(lines, line_no,
                                    {SIMILARITIES, DIFFERENCES, COMMON_THEMES})
         IN  /\ parsed'.similarities # parsed.similarities =>
                    startswith(line, DASH) /\ recent = SIMILARITIES
             /\ parsed'.differences # parsed.differences =>
                    startswith(line, DASH) /\ recent = DIFFERENCES
             /\ recent = COMMON_THEMES =>
                    /\ parsed'.similarities = parsed.similarities
                    /\ parsed'.differences = parsed.differences]_vars

\* C24: the summarize parser returns a result for every response; a section
\* whose label never occurs is empty; a dash-led line becomes a key point
\* only when the most recent label line is KEY_POINTS:; an unlabelled line
\* changes the summary only when the most recent label line is SUMMARY: and
\* the line is not empty, and it is then appended after a space.
C24_SummaryParser ==
    [][/\ SummaryLine =>
            LET line == strip(lines[line_no + 1])
                recent == recent_label(lines, line_no, {SUMMARY, KEY_POINTS, THEMES})
            IN  /\ parsed'.key_points # parsed.key_points =>
                       /\ startswith(line, DASH) /\ recent = KEY_POINTS
                       /\ Len(parsed'.key_points) = Len(parsed.key_points) + 1
                /\ (parsed'.summary # parsed.summary /\ ~startswith(line, SUMMARY)) =>
                       /\ recent = SUMMARY /\ line # <<>>
                       /\ parsed'.summary = parsed.summary \o <<" ">> \o line
       /\ SummaryReturn =>
            /\ DOMAIN parsed' = {"summary", "key_points", "themes"}
            /\ label_lines(lines, Len(lines), {SUMMARY}) = {} => parsed'.summary = <<>>
            /\ label_lines(lines, Len(lines), {KEY_POINTS}) = {} => parsed'.key_points = <<>>
            /\ label_lines(lines, Len(lines), {THEMES}) = {} => parsed'.themes = <<>>]_vars

\* the summarize parser has returned one key point for a response with two
\* dash-led lines, one of them before the KEY_POINTS: line, and an empty
\* summary for want of a SUMMARY: line
C24_Witness ==
    /\ pc_parse = "summary_done"
    /\ Len(parsed.key_points) = 1
    /\ Cardinality({i \in 1..Len(lines) : startswith(strip(lines[i]), DASH)}) = 2
    /\ parsed.summary = <<>>

\* the similarity scores of the retrieved chunks of document d, added up
RECURSIVE retrieved_sum(_, _)
retrieved_sum(cs, d) ==
    IF cs = <<>> THEN 0
    ELSE (IF Head(cs).document_id = d THEN Head(cs).similarity_score ELSE 0)
         + retrieved_sum(Tail(cs), d)

\* C25: findSimilarDocuments(id, topK) on a registered id returns at most
\* topK candidates in order of non-increasing mean similarity; a candidate's
\* mean is that of its chunks among the (at most topK x 3) retrieved ones;
\* it carries at most 2 sample chunks and is registered.
C25_FindSimilarRanking ==
    (last.op = "find_similar" /\ last.id \in DOMAIN documents_store) =>
        LET res == last.result.value
            got == last.relevant_chunks
        IN  /\ last.result.kind = "list"
            /\ Len(res) <= last.top_k
            /\ Len(got) <= last.top_k * 3
            /\ \A i, j \in 1..Len(res) :
                  i < j => res[i].similarity_sum * res[j].matching_chunks
                             >= res[j].similarity_sum * res[i].matching_chunks
            /\ \A i \in 1..Len(res) :
                  /\ res[i].matching_chunks
                       = Cardinality({k \in 1..Len(got) :
                                         got[k].document_id = res[i].document_id})
                  /\ res[i].matching_chunks > 0
                  /\ res[i].similarity_sum = retrieved_sum(got, res[i].document_id)
                  /\ Len(res[i].sample_chunks) <= 2
                  /\ res[i].document_id \in DOMAIN documents_store

\* a find-similar has returned two candidates of different mean, the better
\* one first although the nearest retrieved chunk belongs to the other, which
\* matched three chunks and shows two of them
C25_Witness ==
    /\ last.op = "find_similar" /\ last.id \in DOMAIN documents_store
    /\ Len(last.result.value) = 2
    /\ last.result.value[1].similarity_sum * last.result.value[2].matching_chunks
         > last.result.value[2].similarity_sum * last.result.value[1].matching_chunks
    /\ last.relevant_chunks[1].document_id = last.result.value[2].document_id
    /\ last.result.value[2].matching_chunks = 3
    /\ Len(last.result.value[2].sample_chunks) = 2

====
